---- MODULE Spec2Model ----
(***************************************************************************)
(* A model of notifier.py: the module-level configuration read from the    *)
(* environment, send_pushover_notification and main(), run repeatedly by   *)
(* an external scheduler against a feed and a marker file that persist     *)
(* between runs.                                                           *)
(*                                                                         *)
(* Strings are sequences of one-character strings, so that str.strip()     *)
(* and int() are computed and not assumed.  An Optional value is a         *)
(* sequence of length 0 (None / unset / file absent) or 1 (the value).     *)
(***************************************************************************)
EXTENDS Integers, Sequences, FiniteSets, TLC

VARIABLES
    env,          \* os.environ of the process: name -> Optional string
    feed,         \* the feed document on the server: entries, newest first
    marker,       \* the file at LAST_SEEN_FILE: Optional string
    pc,           \* where the current run of main() is
    latest,       \* main(): feed.entries[0]
    last_seen,    \* main(): Optional string
    data,         \* send_pushover_notification(): the form fields
    io,           \* the I/O calls this run has made, in order
    marker0,      \* the marker file when this run started
    notified,     \* successful POSTs so far (saturates at MaxCount)
    changes,      \* changes of the first entry seen by a run (saturates)
    lastObserved, \* the first entry's ID at the last fetch that had one
    streakDone,   \* lastObserved was notified since it became first entry
    clean,        \* no run was interrupted and no marker write failed
    anyFail,      \* a notification attempt raised (ValueError or the POST)
    prevFail      \* the ID whose POST failed in the previous run

vars == <<env, feed, marker, pc, latest, last_seen, data, io, marker0,
          notified, changes, lastObserved, streakDone, clean, anyFail,
          prevFail>>

\* ------------------------------------------------------------------ bounds
MaxCount == 2

\* ----------------------------------------------------------------- strings
None == <<>>
Some(x) == <<x>>

IsSpace(c) == c \in {" ", "\n"}

RECURSIVE lstrip(_)
lstrip(s) == IF s # <<>> /\ IsSpace(Head(s)) THEN lstrip(Tail(s)) ELSE s

RECURSIVE rstrip(_)
rstrip(s) ==
    IF s # <<>> /\ IsSpace(s[Len(s)]) THEN rstrip(SubSeq(s, 1, Len(s) - 1)) ELSE s

\* str.strip()
strip(s) == rstrip(lstrip(s))

Digits == {"0", "1", "2", "3", "4", "5", "6", "7", "8", "9"}

DigitVal(c) ==
    CASE c = "0" -> 0 [] c = "1" -> 1 [] c = "2" -> 2 [] c = "3" -> 3
      [] c = "4" -> 4 [] c = "5" -> 5 [] c = "6" -> 6 [] c = "7" -> 7
      [] c = "8" -> 8 [] c = "9" -> 9

RECURSIVE DigitsValue(_)
DigitsValue(s) ==
    IF s = <<>> THEN 0
    ELSE 10 * DigitsValue(SubSeq(s, 1, Len(s) - 1)) + DigitVal(s[Len(s)])

IntBody(s) ==
    LET t == strip(s)
    IN  IF t # <<>> /\ t[1] \in {"-", "+"} THEN Tail(t) ELSE t

\* int(s) returns (otherwise it raises ValueError)
IntValid(s) ==
    LET u == IntBody(s)
    IN  u # <<>> /\ \A i \in 1..Len(u) : u[i] \in Digits

\* int(s)
IntValue(s) ==
    LET t == strip(s)
    IN  IF t[1] = "-" THEN 0 - DigitsValue(IntBody(s)) ELSE DigitsValue(IntBody(s))

\* ------------------------------------------------------------- environment
\* os.environ.get(name, default)
environ_get(name, default) == IF env[name] = None THEN default ELSE env[name][1]

\* the literal "https://www.youtube.com/feeds/videos.xml?channel_id="
FeedUrlPrefix == <<"h", "=">>

YOUTUBE_CHANNEL_ID == environ_get("YOUTUBE_CHANNEL_ID", <<>>)

FEED_URL ==
    strip(environ_get("YOUTUBE_FEED_URL",
                      IF YOUTUBE_CHANNEL_ID # <<>>
                      THEN FeedUrlPrefix \o YOUTUBE_CHANNEL_ID ELSE <<>>))

LAST_SEEN_FILE == environ_get("LAST_SEEN_FILE", <<>>)
PUSHOVER_USER == environ_get("PUSHOVER_USER", <<>>)
PUSHOVER_TOKEN == environ_get("PUSHOVER_TOKEN", <<>>)

\* value and value.strip()
NonBlank(value) == value # <<>> /\ strip(value) # <<>>

required ==
    << <<"YOUTUBE_FEED_URL or YOUTUBE_CHANNEL_ID", FEED_URL>>,
       <<"LAST_SEEN_FILE", LAST_SEEN_FILE>>,
       <<"PUSHOVER_USER", PUSHOVER_USER>>,
       <<"PUSHOVER_TOKEN", PUSHOVER_TOKEN>> >>

missing == {i \in 1..Len(required) : ~NonBlank(required[i][2])}

\* the values the environment variables are drawn from
ChannelOpts == {None, Some(<<" ">>), Some(<<"c">>)}
FeedUrlOpts == {None, Some(<<" ">>), Some(<<"u", " ">>)}
FileOpts == {None, Some(<<"f">>)}
UserOpts == {Some(<<" ", " ">>), Some(<<"p">>)}
TokenOpts == {Some(<<>>), Some(<<"k">>)}
PriorityOpts == {None, Some(<<" ", "2", "\n">>), Some(<<"-", "1">>),
                 Some(<<"x">>), Some(<<>>)}
RetryOpts == {None, Some(<<"x">>)}
ExpireOpts == {None, Some(<<>>)}

Envs ==
    {[YOUTUBE_CHANNEL_ID |-> c, YOUTUBE_FEED_URL |-> u, LAST_SEEN_FILE |-> f,
      PUSHOVER_USER |-> p, PUSHOVER_TOKEN |-> k, PUSHOVER_PRIORITY |-> pr,
      PUSHOVER_RETRY |-> r, PUSHOVER_EXPIRE |-> e] :
        c \in ChannelOpts, u \in FeedUrlOpts, f \in FileOpts, p \in UserOpts,
        k \in TokenOpts, pr \in PriorityOpts, r \in RetryOpts, e \in ExpireOpts}

\* -------------------------------------------------------------------- feed
Videos == {<<"v", "1">>, <<"v", "2">>}

Entry(v) == [yt_videoid |-> v, title |-> <<"t">> \o v, link |-> <<"l">> \o v]

NoEntry == [yt_videoid |-> <<>>, title |-> <<>>, link |-> <<>>]

InFeed(v) == \E i \in 1..Len(feed) : feed[i].yt_videoid = v

Feeds == {<<>>} \cup {<<Entry(v)>> : v \in Videos}

Markers == {None, Some(<<"v", "1">>), Some(<<"v", "1", "\n">>)}

NoData == [k \in {} |-> <<>>]

Inc(n) == IF n < MaxCount THEN n + 1 ELSE n

Running == {"main", "fetch", "read", "compare", "notify", "post", "open", "write"}
Ended == {"done", "raised", "killed"}

Did(op) == \E i \in 1..Len(io) : io[i] = op

\* -------------------------------------------------------------------- Init
Init ==
    /\ env \in Envs
    /\ feed \in Feeds
    /\ marker \in Markers
    /\ pc = "idle"
    /\ latest = NoEntry
    /\ last_seen = None
    /\ data = NoData
    /\ io = <<>>
    /\ marker0 = marker
    /\ notified = 0
    /\ changes = 0
    /\ lastObserved = IF marker = None THEN None ELSE Some(strip(marker[1]))
    /\ streakDone = FALSE
    /\ clean = TRUE
    /\ anyFail = FALSE
    /\ prevFail = None

\* -------------------------------------------- send_pushover_notification
PriorityStr == environ_get("PUSHOVER_PRIORITY", <<"1">>)
RetryStr == environ_get("PUSHOVER_RETRY", <<"6", "0">>)
ExpireStr == environ_get("PUSHOVER_EXPIRE", <<"3", "6", "0", "0">>)

\* IsEmergency with >= 1 for == 2
IsEmergencyLoose(priority) == priority >= 1

\* `if data["priority"] == 2`
IsEmergency(priority) == priority = 2

\* one of the int() calls of lines 30, 35, 36 raises ValueError
send_raises ==
    \/ ~IntValid(PriorityStr)
    \/ /\ IsEmergency(IntValue(PriorityStr))
       /\ ~IntValid(RetryStr) \/ ~IntValid(ExpireStr)

\* the dict `data` of lines 25-40; url is Optional
send_data(to, text, url) ==
    LET base == [token |-> PUSHOVER_TOKEN, user |-> to,
                 title |-> "New YouTube Video", message |-> text,
                 priority |-> IntValue(PriorityStr)]
        emergency == IF IsEmergency(base.priority)
                     THEN [retry |-> IntValue(RetryStr),
                           expire |-> IntValue(ExpireStr)]
                     ELSE NoData
        withUrl == IF url # None
                   THEN [url |-> url[1], url_title |-> "Open Video"]
                   ELSE NoData
    IN  base @@ emergency @@ withUrl

\* ------------------------------------------------------------------ main()
\* the scheduler starts the process: a new run of main()
StartRun ==
    /\ pc \in Ended \cup {"idle"}
    /\ pc' = "main"
    /\ prevFail' = IF pc = "raised" /\ io # <<>> /\ io[Len(io)] = "POST_ERR"
                   THEN Some(latest.yt_videoid) ELSE None
    /\ latest' = NoEntry
    /\ last_seen' = None
    /\ data' = NoData
    /\ io' = <<>>
    /\ marker0' = marker
    /\ UNCHANGED <<env, feed, marker, notified, changes, lastObserved,
                   streakDone, clean, anyFail>>

\* lines 50-59
CheckConfig ==
    /\ pc = "main"
    /\ pc' = IF missing # {} THEN "done" ELSE "fetch"
    /\ UNCHANGED <<env, feed, marker, latest, last_seen, data, io, marker0,
                   notified, changes, lastObserved, streakDone, clean,
                   prevFail,
                   anyFail>>

\* lines 61-71, the feed has entries
FetchEntries ==
    /\ pc = "fetch"
    /\ feed # <<>>
    /\ io' = Append(io, "GET")
    /\ latest' = feed[1]
    /\ changes' = IF Some(feed[1].yt_videoid) # lastObserved
                  THEN Inc(changes) ELSE changes
    /\ streakDone' = (Some(feed[1].yt_videoid) = lastObserved /\ streakDone)
    /\ lastObserved' = Some(feed[1].yt_videoid)
    /\ pc' = "read"
    /\ UNCHANGED <<env, feed, marker, last_seen, data, marker0,
                   notified, clean, prevFail,
                   anyFail>>

\* FetchNone without the guard of line 63: entries[0] raises IndexError
\* after the marker was opened first
FetchNoneUnguarded ==
    /\ pc = "fetch"
    /\ io' = <<"GET", "READ">>
    /\ pc' = "raised"
    /\ UNCHANGED <<env, feed, marker, latest, last_seen, data, marker0,
                   notified, changes, lastObserved, streakDone, clean,
                   prevFail, anyFail>>

\* lines 61-65, feedparser returns no entries (the feed is empty, or the
\* request or the parse failed)
FetchNone ==
    /\ pc = "fetch"
    /\ io' = Append(io, "GET")
    /\ pc' = "done"
    /\ UNCHANGED <<env, feed, marker, latest, last_seen, data, marker0,
                   notified, changes, lastObserved, streakDone, clean,
                   prevFail,
                   anyFail>>

\* ReadMarker without the .strip() of line 75
ReadMarkerNoStrip ==
    /\ pc = "read"
    /\ io' = Append(io, "READ")
    /\ last_seen' = marker
    /\ pc' = "compare"
    /\ UNCHANGED <<env, feed, marker, latest, data, marker0, notified,
                   changes, lastObserved, streakDone, clean, prevFail,
                   anyFail>>

\* lines 73-80
ReadMarker ==
    /\ pc = "read"
    /\ io' = Append(io, "READ")
    /\ last_seen' = IF marker = None THEN None ELSE Some(strip(marker[1]))
    /\ pc' = "compare"
    /\ UNCHANGED <<env, feed, marker, latest, data, marker0, notified,
                   changes, lastObserved, streakDone, clean, prevFail,
                   anyFail>>

\* Compare with the marker written before the notification is sent
CompareWriteFirst ==
    /\ pc = "compare"
    /\ pc' = IF Some(latest.yt_videoid) # last_seen THEN "open" ELSE "done"
    /\ UNCHANGED <<env, feed, marker, latest, last_seen, data, io, marker0,
                   notified, changes, lastObserved, streakDone, clean,
                   prevFail, anyFail>>

\* Compare with the test of line 82 always true
CompareAlwaysNew ==
    /\ pc = "compare"
    /\ pc' = "notify"
    /\ UNCHANGED <<env, feed, marker, latest, last_seen, data, io, marker0,
                   notified, changes, lastObserved, streakDone, clean,
                   prevFail, anyFail>>

\* lines 82-83, 89-90
Compare ==
    /\ pc = "compare"
    /\ pc' = IF Some(latest.yt_videoid) # last_seen THEN "notify" ELSE "done"
    /\ UNCHANGED <<env, feed, marker, latest, last_seen, data, io, marker0,
                   notified, changes, lastObserved, streakDone, clean,
                   prevFail,
                   anyFail>>

\* line 84 and lines 25-40
BuildRequest ==
    /\ pc = "notify"
    /\ IF send_raises
       THEN pc' = "raised" /\ data' = data /\ anyFail' = TRUE
       ELSE /\ pc' = "post"
            /\ data' = send_data(PUSHOVER_USER, latest.title, Some(latest.link))
            /\ anyFail' = anyFail
    /\ UNCHANGED <<env, feed, marker, latest, last_seen, io, marker0,
                   notified, changes, lastObserved, streakDone, clean,
                   prevFail>>

\* lines 42-43, a success status
PostOk ==
    /\ pc = "post"
    /\ io' = Append(io, "POST_OK")
    /\ notified' = Inc(notified)
    /\ streakDone' = TRUE
    /\ pc' = "open"
    /\ UNCHANGED <<env, feed, marker, latest, last_seen, data, marker0,
                   changes, lastObserved, clean, prevFail,
                   anyFail>>

\* PostFail without raise_for_status: main() goes on to the marker
PostFailSwallowed ==
    /\ pc = "post"
    /\ io' = Append(io, "POST_ERR")
    /\ pc' = "open"
    /\ anyFail' = TRUE
    /\ UNCHANGED <<env, feed, marker, latest, last_seen, data, marker0,
                   notified, changes, lastObserved, streakDone, clean,
                   prevFail>>

\* PostFail with the marker written before the status is checked
PostFailMarks ==
    /\ pc = "post"
    /\ io' = Append(io, "POST_ERR")
    /\ marker' = Some(latest.yt_videoid)
    /\ pc' = "raised"
    /\ anyFail' = TRUE
    /\ UNCHANGED <<env, feed, latest, last_seen, data, marker0,
                   notified, changes, lastObserved, streakDone, clean,
                   prevFail>>

\* lines 42-43, requests.post raises or raise_for_status raises
PostFail ==
    /\ pc = "post"
    /\ io' = Append(io, "POST_ERR")
    /\ pc' = "raised"
    /\ anyFail' = TRUE
    /\ UNCHANGED <<env, feed, marker, latest, last_seen, data, marker0,
                   notified, changes, lastObserved, streakDone, clean,
                   prevFail>>

\* OpenWrite with mode "a": the file is created but not truncated
OpenAppend ==
    /\ pc = "open"
    /\ io' = Append(io, "OPEN")
    /\ marker' = IF marker = None THEN Some(<<>>) ELSE marker
    /\ pc' = "write"
    /\ UNCHANGED <<env, feed, latest, last_seen, data, marker0,
                   notified, changes, lastObserved, streakDone, clean,
                   prevFail, anyFail>>

\* line 86: open(LAST_SEEN_FILE, "w") creates or truncates the file
OpenWrite ==
    /\ pc = "open"
    /\ io' = Append(io, "OPEN")
    /\ marker' = Some(<<>>)
    /\ pc' = "write"
    /\ UNCHANGED <<env, feed, latest, last_seen, data, marker0,
                   notified, changes, lastObserved, streakDone, clean,
                   prevFail,
                   anyFail>>

\* line 86: open raises OSError
OpenFail ==
    /\ pc = "open"
    /\ io' = Append(io, "OPEN_ERR")
    /\ pc' = "raised"
    /\ clean' = FALSE
    /\ UNCHANGED <<env, feed, marker, latest, last_seen, data, marker0,
                   notified, changes, lastObserved, streakDone, prevFail,
                   anyFail>>

\* lines 87-88: the buffered write reaches the file when the with block
\* closes it
WriteClose ==
    /\ pc = "write"
    /\ io' = Append(io, "WRITE")
    /\ marker' = Some(marker[1] \o latest.yt_videoid)
    /\ pc' = "done"
    /\ UNCHANGED <<env, feed, latest, last_seen, data, marker0,
                   notified, changes, lastObserved, streakDone, clean,
                   prevFail,
                   anyFail>>

\* lines 87-88: the write raises OSError after n characters reached the file
WriteFail ==
    /\ pc = "write"
    /\ \E n \in 0..(Len(latest.yt_videoid) - 1) :
          marker' = Some(marker[1] \o SubSeq(latest.yt_videoid, 1, n))
    /\ io' = Append(io, "WRITE_ERR")
    /\ pc' = "raised"
    /\ clean' = FALSE
    /\ UNCHANGED <<env, feed, latest, last_seen, data, marker0,
                   notified, changes, lastObserved, streakDone, prevFail,
                   anyFail>>

\* the process is interrupted (a signal, a power cut) during a run
Kill ==
    /\ pc \in Running
    /\ pc' = "killed"
    /\ clean' = FALSE
    /\ UNCHANGED <<env, feed, marker, latest, last_seen, data, io, marker0,
                   notified, changes, lastObserved, streakDone,
                   prevFail,
                   anyFail>>

\* ------------------------------------------------------------- the channel
\* the channel publishes a video: it becomes the feed's first entry
Upload ==
    \E v \in Videos :
        /\ ~InFeed(v)
        /\ feed' = <<Entry(v)>> \o feed
        /\ UNCHANGED <<env, marker, pc, latest, last_seen, data, io, marker0,
                       notified, changes, lastObserved, streakDone,
                       clean, prevFail,
                   anyFail>>

\* the channel removes its newest video
Remove ==
    /\ feed # <<>>
    /\ feed' = Tail(feed)
    /\ UNCHANGED <<env, marker, pc, latest, last_seen, data, io, marker0,
                   notified, changes, lastObserved, streakDone, clean,
                   prevFail,
                   anyFail>>

Next ==
    \/ StartRun
    \/ CheckConfig
    \/ FetchEntries
    \/ FetchNone
    \/ ReadMarker
    \/ Compare
    \/ BuildRequest
    \/ PostOk
    \/ PostFail
    \/ OpenWrite
    \/ OpenFail
    \/ WriteClose
    \/ WriteFail
    \/ Kill
    \/ Upload
    \/ Remove

Spec == Init /\ [][Next]_vars

\* The scheduler keeps starting runs, a started run keeps going, and the
\* feed request, the POST and the marker write each succeed again and again:
\* a run can still be interrupted, and any single request can still fail.
Fairness ==
    /\ SF_vars(StartRun)
    /\ SF_vars(CheckConfig)
    /\ SF_vars(FetchEntries)
    /\ SF_vars(ReadMarker)
    /\ SF_vars(Compare)
    /\ SF_vars(BuildRequest)
    /\ SF_vars(PostOk)
    /\ SF_vars(OpenWrite)
    /\ SF_vars(WriteClose)

\* the runs of a correctly configured installation: the feed URL is given,
\* priority, retry and expire are the defaults
FairInit ==
    /\ Init
    /\ missing = {}
    /\ ~send_raises
    /\ env.YOUTUBE_CHANNEL_ID = None
    /\ env.PUSHOVER_RETRY = None
    /\ env.PUSHOVER_EXPIRE = None
    /\ env.PUSHOVER_PRIORITY = None

FairSpec == FairInit /\ [][Next]_vars /\ Fairness

\* ------------------------------------------------------------------ claims
NumPosts == Cardinality({i \in 1..Len(io) : io[i] \in {"POST_OK", "POST_ERR"}})

video_id == latest.yt_videoid

\* this run found entries, and the first one's ID is not the marker's
\* trimmed contents as the run found it (absent and empty included)
NewVideoRun ==
    /\ missing = {}
    /\ latest # NoEntry
    /\ marker0 = None \/ strip(marker0[1]) # video_id

\* the run is over and was not interrupted
Returned == pc \in {"done", "raised"}

CarriesEntry == data.message = latest.title /\ data.url = latest.link

C2_FailedPostKeepsMarker ==
    Did("POST_ERR") => (pc = "raised" /\ marker = marker0 /\ NumPosts = 1)

C2_Witness ==
    /\ pc = "raised"
    /\ io = <<"GET", "READ", "POST_ERR">>
    /\ marker0 = None
    /\ marker = None

\* C3: a run whose first entry's ID equals the marker's trimmed contents
\* performs no POST, leaves the marker unchanged and returns normally.
C3_SameVideoNoOp ==
    (Did("READ") /\ marker0 # None /\ strip(marker0[1]) = video_id) =>
        /\ NumPosts = 0
        /\ data = NoData
        /\ marker = marker0
        /\ pc \in {"compare", "done", "killed"}
        /\ ~Did("OPEN") /\ ~Did("OPEN_ERR")

C3_Witness ==
    /\ pc = "done"
    /\ io = <<"GET", "READ">>
    /\ marker0 = Some(<<"v", "1", "\n">>)
    /\ video_id = <<"v", "1">>

\* C4: a run whose fetch yields no entries returns normally, performs no
\* POST and neither reads nor modifies the marker file.
C4_NoEntriesNoOp ==
    (Did("GET") /\ latest = NoEntry) =>
        /\ pc = "done"
        /\ io = <<"GET">>
        /\ data = NoData
        /\ marker = marker0

C4_Witness ==
    /\ pc = "done"
    /\ io = <<"GET">>
    /\ latest = NoEntry
    /\ feed # <<>>

\* a setting that is absent, empty or whitespace-only
SettingBlank(o) == o = None \/ strip(o[1]) = <<>>

AnyRequiredBlank ==
    \/ SettingBlank(env.YOUTUBE_FEED_URL) /\ SettingBlank(env.YOUTUBE_CHANNEL_ID)
    \/ SettingBlank(env.LAST_SEEN_FILE)
    \/ SettingBlank(env.PUSHOVER_USER)
    \/ SettingBlank(env.PUSHOVER_TOKEN)

\* C5: if one of the four required settings is absent, empty or
\* whitespace-only (the feed source: neither the feed URL nor the channel ID
\* is given), main() returns before any I/O: no GET, no POST, no marker
\* read or write.
C5_BlankSettingNoIO ==
    AnyRequiredBlank => io = <<>>

\* C6: the request holds retry and expire exactly when its priority,
\* int() of PUSHOVER_PRIORITY or of the default "1", is 2.
C6_RetryExpireIffEmergency ==
    data # NoData =>
        /\ ("retry" \in DOMAIN data) <=> (data.priority = 2)
        /\ ("expire" \in DOMAIN data) <=> (data.priority = 2)
        /\ env.PUSHOVER_PRIORITY = None => data.priority = 1

C6_Witness ==
    /\ Did("POST_OK")
    /\ env.PUSHOVER_PRIORITY = Some(<<" ", "2", "\n">>)
    /\ data.priority = 2
    /\ data.retry = 60
    /\ data.expire = 3600

\* C8: when a run is over, interrupted or failed ones included, the marker
\* file is what it was before the run or holds exactly the new video ID.
C8_NeverPartial ==
    pc \in Ended => (marker = marker0 \/ marker = Some(video_id))

IsPrefix(s, t) == Len(s) <= Len(t) /\ s = SubSeq(t, 1, Len(s))

\* C9: within a run, the marker is opened or written only after the POST of
\* that run, for the entry whose ID is written, has succeeded.
C9_WriteOnlyAfterPostOk ==
    /\ \A i \in 1..Len(io) :
          io[i] \in {"OPEN", "OPEN_ERR", "WRITE", "WRITE_ERR"} =>
              \E j \in 1..(i - 1) : io[j] = "POST_OK"
    /\ pc \in {"open", "write"} => Did("POST_OK")
    /\ marker # marker0 =>
          /\ Did("POST_OK")
          /\ CarriesEntry
          /\ IsPrefix(marker[1], video_id)

C9_Witness ==
    /\ pc = "write"
    /\ io = <<"GET", "READ", "POST_OK", "OPEN">>
    /\ marker = Some(<<>>)

Top(v) == feed # <<>> /\ feed[1].yt_videoid = v

PostJustFailed(v) ==
    /\ pc = "raised"
    /\ io # <<>> /\ io[Len(io)] = "POST_ERR"
    /\ video_id = v

====
